---- MODULE Spec2Model ----
(***************************************************************************)
(* Model of the Mercado Livre scrapers of Siblon/scraper_ml:               *)
(*   - gerar_slug                      (buscar_links_ml.py)                *)
(*   - buscar_link / buscar_links_mercado_livre, the HTTP path             *)
(*   - inferir_coluna_por_conteudo     (colunas_utils.py)                  *)
(*   - buscar_links_para_itens + main, the browser path                    *)
(*   - buscar_preco + the module-level loop of scraper_ml.py               *)
(*   - main of test_selenium_ml.py                                         *)
(* Strings are sequences of one-character strings, so that strip, split,   *)
(* substring tests and the regular expressions are computed as the code    *)
(* computes them.                                                          *)
(***************************************************************************)
EXTENDS Integers, Sequences, FiniteSets, TLC

\* ------------------------------------------------------------------ bounds
\* longest input of gerar_slug that is enumerated
MaxLen == 3
\* most <a> elements of a fetched page
MaxCards == 2
\* most rows of the 'Descricao do Item' column
MaxItens == 2
\* most rows of the price spreadsheet
MaxLinhas == 2
\* most cells of the column given to inferir_coluna_por_conteudo
MaxAmostra == 2

\* ------------------------------------------------------------ characters
Minusculas == <<"a","b","c","d","e","f","g","h","i","j","k","l","m",
                "n","o","p","q","r","s","t","u","v","w","x","y","z">>
Maiusculas == <<"A","B","C","D","E","F","G","H","I","J","K","L","M",
                "N","O","P","Q","R","S","T","U","V","W","X","Y","Z">>
Digitos == {"0","1","2","3","4","5","6","7","8","9"}
\* what \s and str.strip() take for white space among the ASCII characters
Espacos == {" ", "\t", "\n", "\r"}
Letras == {Minusculas[i] : i \in 1..26} \cup {Maiusculas[i] : i \in 1..26}
\* the ASCII characters the model writes besides letters, digits and spaces
Pontuacao == {"-", ".", "/", "#", "_", ":"}
Ascii == Letras \cup Digitos \cup Espacos \cup Pontuacao

\* str.lower() on one character
Lower(c) ==
    IF \E i \in 1..26 : Maiusculas[i] = c
    THEN Minusculas[CHOOSE i \in 1..26 : Maiusculas[i] = c]
    ELSE c

\* str.lower()
LowerStr(s) == [i \in 1..Len(s) |-> Lower(s[i])]

\* A non-ASCII character is written by its code point: "U+00EA" is e with
\* circumflex, "U+00CA" its capital, "U+00E7" c with cedilla, "U+FB01" the
\* ligature fi, "U+20AC" the euro sign, "U+00A0" the no-break space;
\* "U+0302" and "U+0327" are the combining circumflex and cedilla.
\* unicodedata.normalize("NFKD", c) for one character: an ASCII character is
\* itself; an accented letter is its base letter followed by the combining
\* mark; a compatibility character is its replacement; the others have no
\* decomposition.
Nfkd(c) ==
    CASE c = "U+00EA" -> <<"e", "U+0302">>
      [] c = "U+00CA" -> <<"E", "U+0302">>
      [] c = "U+00E7" -> <<"c", "U+0327">>
      [] c = "U+FB01" -> <<"f", "i">>
      [] c = "U+00A0" -> <<" ">>
      [] OTHER -> <<c>>

RECURSIVE Flatten(_)
Flatten(ss) == IF ss = <<>> THEN <<>> ELSE Head(ss) \o Flatten(Tail(ss))

\* unicodedata.normalize("NFKD", texto)
NfkdStr(s) == Flatten([i \in 1..Len(s) |-> Nfkd(s[i])])

\* .encode("ascii", "ignore").decode("ascii"): non-ASCII characters vanish
AsciiIgnore(s) == SelectSeq(s, LAMBDA c : c \in Ascii)

\* re.sub(r"[^a-zA-Z0-9\s-]", "", s)
RemoveEspeciais(s) ==
    SelectSeq(s, LAMBDA c : c \in Letras \cup Digitos \cup Espacos \cup {"-"})

RECURSIVE LStrip(_)
LStrip(s) == IF s # <<>> /\ Head(s) \in Espacos THEN LStrip(Tail(s)) ELSE s

RECURSIVE RStrip(_)
RStrip(s) ==
    IF s # <<>> /\ s[Len(s)] \in Espacos
    THEN RStrip(SubSeq(s, 1, Len(s) - 1)) ELSE s

\* str.strip()
Strip(s) == RStrip(LStrip(s))

\* re.sub(r"\s+", "-", s): every maximal run of white space becomes one "-"
RECURSIVE EspacosParaHifen(_)
EspacosParaHifen(s) ==
    IF s = <<>> THEN <<>>
    ELSE IF Head(s) \in Espacos
         THEN <<"-">> \o EspacosParaHifen(LStrip(s))
         ELSE <<Head(s)>> \o EspacosParaHifen(Tail(s))

\* re.sub(r"--", "-", s): every pair of "-" becomes one "-"
RECURSIVE ColapsaHifensAosPares(_)
ColapsaHifensAosPares(s) ==
    IF s = <<>> THEN <<>>
    ELSE IF Head(s) = "-" /\ Len(s) > 1 /\ s[2] = "-"
         THEN <<"-">> \o ColapsaHifensAosPares(Tail(Tail(s)))
         ELSE <<Head(s)>> \o ColapsaHifensAosPares(Tail(s))

\* re.sub(r"-+", "-", s): every maximal run of "-" becomes one "-"
RECURSIVE ColapsaHifens(_)
ColapsaHifens(s) ==
    IF s = <<>> THEN <<>>
    ELSE IF Head(s) = "-" /\ Len(s) > 1 /\ s[2] = "-"
         THEN ColapsaHifens(Tail(s))
         ELSE <<Head(s)>> \o ColapsaHifens(Tail(s))

\* gerar_slug(texto)
gerar_slug(texto) ==
    LET texto_normalizado == NfkdStr(texto)
        texto_ascii == AsciiIgnore(texto_normalizado)
        texto_limpo == RemoveEspeciais(texto_ascii)
        texto_hifenizado == EspacosParaHifen(Strip(texto_limpo))
    IN  LowerStr(ColapsaHifens(texto_hifenizado))


\* ------------------------------------------------------------------ URLs
\* sub in s
Contem(s, sub) ==
    \E i \in 1..(Len(s) - Len(sub) + 1) : SubSeq(s, i, i + Len(sub) - 1) = sub

\* href.split("#")[0] left out: the href as it is
SplitHashSemCorte(href) == href

\* href.split("#")[0]
SplitHash(href) ==
    LET cortes == {i \in 1..Len(href) : href[i] = "#"}
    IN  IF cortes = {} THEN href
        ELSE SubSeq(href, 1, (CHOOSE i \in cortes : \A j \in cortes : i <= j) - 1)

links_invalidos ==
    { <<"/","a","c","e","s","s","i","b","i","l","i","d","a","d","e">>,
      <<"/","a","j","u","d","a">>,
      <<"/","o","f","e","r","t","a","s">>,
      <<"/","p","r","i","v","a","c","i","d","a","d","e">>,
      <<"/","s","e","g","u","r","a","n","c","a">> }

\* any(inv in href for inv in links_invalidos)
ContemInvalido(href) == \E inv \in links_invalidos : Contem(href, inv)

\* re.compile(r"(\/p\/MLB\d+|MLB-\d+|\/item\/)", re.IGNORECASE).search(href)
PadraoProdutoHttp(href) ==
    LET l == LowerStr(href)
    IN  \/ \E i \in 1..Len(l) :
              /\ i + 6 <= Len(l)
              /\ SubSeq(l, i, i + 5) = <<"/","p","/","m","l","b">>
              /\ l[i + 6] \in Digitos
        \/ \E i \in 1..Len(l) :
              /\ i + 4 <= Len(l)
              /\ SubSeq(l, i, i + 3) = <<"m","l","b","-">>
              /\ l[i + 4] \in Digitos
        \/ Contem(l, <<"/","i","t","e","m","/">>)

\* re.compile(r"(?:/item/|/p/)", re.IGNORECASE).search(href)
PadraoProdutoSelenium(href) ==
    LET l == LowerStr(href)
    IN  Contem(l, <<"/","i","t","e","m","/">>) \/ Contem(l, <<"/","p","/">>)

\* "NAO ENCONTRADO" with A-tilde, the sentinel of a term without link
NAO_ENCONTRADO ==
    <<"N","U+00C3","O"," ","E","N","C","O","N","T","R","A","D","O">>

\* a missing cell of a spreadsheet (NaN)
NaN == <<"NaN">>

\* the href values a page is built from: a product page, Scenario E's help
\* page, a deny-listed path that also matches the product pattern, a page
\* that matches nothing, a product page with a fragment, a /p/ page without
\* catalogue number, and an element without href
HrefProduto == <<"/","p","/","M","L","B","1">>
HrefAjuda == <<"/","a","j","u","d","a","/","s","e","g","u","r","a","n","c","a","#","x">>
HrefAjudaProduto == <<"/","a","j","u","d","a","/","p","/","M","L","B","1">>
HrefOutro == <<"/","x">>
HrefProdutoFrag == <<"/","p","/","M","L","B","1","#","x">>
HrefP == <<"/","p","/","x">>
HrefVazio == <<>>
\* a second product page, of the other form the patterns take
HrefItem == <<"/","i","t","e","m","/","2">>
\* the href values of the pages of each path ("/p/x" is the href that the
\* product pattern of the HTTP path refuses)
HrefsHttp == {HrefProduto, HrefAjuda, HrefAjudaProduto, HrefProdutoFrag,
              HrefP, HrefVazio, HrefItem}
HrefsSelenium == {HrefProduto, HrefAjuda, HrefAjudaProduto, HrefOutro,
                  HrefProdutoFrag, HrefP, HrefVazio}

\* all sequences over S of length at most n
SeqsAte(S, n) == UNION {[1..k -> S] : k \in 0..n}

\* ----------------------------------------------------------------- state
VARIABLES
    prog,          \* the entry point that runs: "slug", "http", "links",
                   \* "selenium", "preco", "teste" or "inferir"
    pc,            \* the position of the running entry point
    texto,         \* gerar_slug: its argument
    slugTexto,     \* gerar_slug: its result
    consulta,      \* buscar_link: produto / consulta
    pagina,        \* HTTP path: the <a> elements of response.text, in
                   \* document order, each [href, sel]: its href and the
                   \* selectors of the cascade that match it
    cards,         \* HTTP path: the href of each element of cards
    links,         \* HTTP path: links
    retorno,       \* buscar_link: [achou, link], the link or None
    http,          \* the slugs of the search pages requested by the
                   \* session.get of the running call
    df,            \* buscar_links_para_itens: the 'Descricao do Item' column
    itens,         \* itens
    indice,        \* indice, 0 before the first term
    termo_busca,   \* termo_busca
    slug,          \* slug
    status,        \* status
    link_saida,    \* link_saida
    elementos,     \* the href of each element of elementos
    resultados,    \* resultados (of either accumulating loop); for
                   \* "links", what the calls made so far returned
    exc,           \* the exception in flight, "none" without one
    sessions,      \* every browser session created: [gets, quits], the
                   \* slugs it loaded with driver.get and its driver.quit calls
    driver,        \* index in sessions of the live driver, 0 for None
    debug,         \* every debug write attempted: [termo, slug, ok]
    saida,         \* the records handed to DataFrame.to_excel
    salvo,         \* whether to_excel was called
    kInt,          \* len(resultados) when KeyboardInterrupt arrived, -1 before
    linhas,        \* scraper_ml: the rows of df, each [produto, tamanho]
    index,         \* scraper_ml: rows taken from df.iterrows()
    total_processados, \* scraper_ml: total_processados
    qtd_resultados, \* scraper_ml: qtd_resultados of the current row
    limite,        \* buscar_links_mercado_livre: limite
    slugDeNovo,    \* gerar_slug applied to its own result
    serie,         \* inferir_coluna_por_conteudo: the cells of serie
    inferido       \* inferir_coluna_por_conteudo: its result, "None" for
                   \* None and "" before the call

vars == <<prog, pc, texto, slugTexto, consulta, pagina, cards, links, retorno,
          http, df, itens, indice, termo_busca, slug, status, link_saida,
          elementos, resultados, exc, sessions, driver, debug, saida, salvo,
          kInt, linhas, index, total_processados, qtd_resultados,
          limite, slugDeNovo, serie, inferido>>

\* the variables of each entry point, for UNCHANGED
varsSlug == <<texto, slugTexto>>
varsHttp == <<consulta, pagina, cards, links, retorno, http>>
varsSelenium == <<df, itens, indice, termo_busca, slug, status, link_saida,
                  elementos>>
varsPreco == <<linhas, index, total_processados, qtd_resultados>>
varsSaida == <<resultados, saida, salvo>>
varsBrowser == <<sessions, driver>>
\* the arguments no action assigns, and the results of the pure functions
varsPuras == <<limite, slugDeNovo, serie, inferido>>

\* the characters gerar_slug's enumerated inputs are made of
SlugAlfabeto == {"a", "B", "1", " ", "\t", "-", ".", "U+00EA"}

\* the cells a description column is made of
Descricoes == {NaN, <<"a">>, <<" ", "a">>, <<"b">>}

\* the state every entry point starts from, but for its own input
InitComum ==
    /\ pc = "inicio"
    /\ slugTexto = <<>>
    /\ pagina = <<>> /\ cards = <<>> /\ links = <<>>
    /\ retorno = [achou |-> FALSE, link |-> <<>>]
    /\ http = <<>>
    /\ itens = <<>> /\ indice = 0 /\ termo_busca = <<>> /\ slug = <<>>
    /\ status = "" /\ link_saida = <<>> /\ elementos = <<>>
    /\ resultados = <<>> /\ exc = "none"
    /\ sessions = <<>> /\ driver = 0
    /\ debug = <<>> /\ saida = <<>> /\ salvo = FALSE /\ kInt = -1
    /\ index = 0 /\ total_processados = 0 /\ qtd_resultados = ""
    /\ slugDeNovo = <<>> /\ inferido = ""

\* --------------------------------------------------------- gerar_slug run
\* the description of Scenario A, "Tenis Adidas VL Court 3.0 38" with
\* e-circumflex
CenarioA ==
    <<"T","U+00EA","n","i","s"," ","A","d","i","d","a","s"," ","V","L"," ",
      "C","o","u","r","t"," ","3",".","0"," ","3","8">>

InitSlug ==
    /\ prog = "slug"
    /\ texto \in SeqsAte(SlugAlfabeto, MaxLen) \cup {CenarioA}
    /\ consulta = <<>> /\ df = <<>> /\ linhas = <<>>
    /\ limite = 1 /\ serie = <<>>
    /\ InitComum

\* slug = gerar_slug(texto)
ChamaGerarSlug ==
    /\ prog = "slug" /\ pc = "inicio"
    /\ slugTexto' = gerar_slug(texto)
    /\ pc' = "fim"
    /\ UNCHANGED <<prog, varsPuras, texto, exc, debug, kInt>>
    /\ UNCHANGED <<varsHttp, varsSelenium, varsPreco, varsSaida, varsBrowser>>

\* gerar_slug(slug): the function applied to what it returned
ChamaDeNovo ==
    /\ prog = "slug" /\ pc = "fim"
    /\ slugDeNovo' = gerar_slug(slugTexto)
    /\ pc' = "de_novo"
    /\ UNCHANGED <<prog, limite, serie, inferido, texto, slugTexto, exc,
                   debug, kInt>>
    /\ UNCHANGED <<varsHttp, varsSelenium, varsPreco, varsSaida, varsBrowser>>

NextSlug == ChamaGerarSlug \/ ChamaDeNovo

SpecSlug == InitSlug /\ [][NextSlug]_vars

\* ------------------------------------------------- HTTP path: buscar_link
\* Retry(total=3, ...)
RetryTotal == 3

\* the <a> elements a page is built from: sel is the first selector of the
\* cascade that matches the element, 0 when none does (the cascade stops at
\* the first selector that matches anything, so a later selector that also
\* matches the element is never asked about it)
Ancoras == [href : HrefsHttp, sel : 0..3]
Paginas == SeqsAte(Ancoras, MaxCards)
\* the pages answered to the caller that asks twice: elements of the first
\* selector and elements of no selector
PaginasLinks == SeqsAte([href : HrefsHttp, sel : 0..1], MaxCards)

HrefsDe(elems) == [i \in 1..Len(elems) |-> elems[i].href]

\* the cascade without its break: the cards of the last selector
CascataSemBreak(soup) ==
    LET select(k) == SelectSeq(soup, LAMBDA a : a.sel = k)
        todos == SelectSeq(soup, LAMBDA a : PadraoProdutoHttp(a.href))
    IN  IF select(3) # <<>> THEN HrefsDe(select(3)) ELSE HrefsDe(todos)

\* the selector cascade and its fallback: cards
Cascata(soup) ==
    LET select(k) == SelectSeq(soup, LAMBDA a : a.sel = k)
        todos == SelectSeq(soup, LAMBDA a : PadraoProdutoHttp(a.href))
    IN  IF select(1) # <<>> THEN HrefsDe(select(1))
        ELSE IF select(2) # <<>> THEN HrefsDe(select(2))
        ELSE IF select(3) # <<>> THEN HrefsDe(select(3))
        ELSE HrefsDe(todos)

\* the test that lets a fragment-free href of the HTTP path through
AceitaHttp(href) == ~ContemInvalido(href) /\ PadraoProdutoHttp(href)

\* the loop over cards without its test of vistos
RECURSIVE ValidaCardsSemVistos(_, _, _, _)
ValidaCardsSemVistos(cs, vistos, ls, lim) ==
    IF cs = <<>> THEN ls
    ELSE IF Head(cs) = <<>> THEN ValidaCardsSemVistos(Tail(cs), vistos, ls, lim)
    ELSE LET href == SplitHash(Head(cs))
         IN  IF ~AceitaHttp(href)
             THEN ValidaCardsSemVistos(Tail(cs), vistos, ls, lim)
             ELSE IF Len(ls) + 1 >= lim
             THEN Append(ls, href)
             ELSE ValidaCardsSemVistos(Tail(cs), vistos, Append(ls, href), lim)

\* the loop over cards: the links it leaves
RECURSIVE ValidaCards(_, _, _, _)
ValidaCards(cs, vistos, ls, lim) ==
    IF cs = <<>> THEN ls
    ELSE IF Head(cs) = <<>> THEN ValidaCards(Tail(cs), vistos, ls, lim)
    ELSE LET href == SplitHash(Head(cs))
         IN  IF href \in vistos
             THEN ValidaCards(Tail(cs), vistos, ls, lim)
             ELSE IF ~AceitaHttp(href)
             THEN ValidaCards(Tail(cs), vistos \cup {href}, ls, lim)
             ELSE IF Len(ls) + 1 >= lim
             THEN Append(ls, href)
             ELSE ValidaCards(Tail(cs), vistos \cup {href},
                              Append(ls, href), lim)

\* the descriptions buscar_link is called with
Consultas == {<<" ", "a">>}

\* buscar_link(produto): limite=1, salvar_html=True
InitHttp ==
    /\ prog = "http"
    /\ consulta \in Consultas
    /\ texto = <<>> /\ df = <<>> /\ linhas = <<>>
    /\ limite = 1 /\ serie = <<>>
    /\ InitComum

\* buscar_links_mercado_livre(consulta, limite), salvar_html left False,
\* by a caller that asks twice
InitLinks ==
    /\ prog = "links"
    /\ consulta \in Consultas
    /\ texto = <<>> /\ df = <<>> /\ linhas = <<>>
    /\ limite \in 1..MaxCards /\ serie = <<>>
    /\ InitComum

\* salvar_html: True from buscar_link, False by default
salvar_html == prog = "http"

\* buscar_link up to the request: the slug that names the page and the file
HttpInicio ==
    /\ prog \in {"http", "links"} /\ pc = "inicio"
    /\ slug' = gerar_slug(consulta)
    /\ pc' = "get"
    /\ UNCHANGED <<prog, varsPuras, exc, debug, kInt, varsSlug, varsHttp, varsPreco,
                   varsSaida, varsBrowser>>
    /\ UNCHANGED <<df, itens, indice, termo_busca, status, link_saida,
                   elementos>>

\* session.get answered 429/500/502/503/504 or lost the connection: the
\* adapter asks again while retries are left, then RequestException
HttpRetentavel ==
    /\ prog \in {"http", "links"} /\ pc = "get"
    /\ http' = Append(http, slug)
    /\ pc' = IF Len(http) < RetryTotal THEN "get" ELSE "ret"
    /\ UNCHANGED <<prog, varsPuras, exc, debug, kInt, varsSlug, varsSelenium, varsPreco,
                   varsSaida, varsBrowser>>
    /\ UNCHANGED <<consulta, pagina, cards, links, retorno>>

\* session.get answered another non-2xx status: raise_for_status raises,
\* the function returns []
HttpErro ==
    /\ prog \in {"http", "links"} /\ pc = "get"
    /\ http' = Append(http, slug)
    /\ pc' = "ret"
    /\ UNCHANGED <<prog, varsPuras, exc, debug, kInt, varsSlug, varsSelenium, varsPreco,
                   varsSaida, varsBrowser>>
    /\ UNCHANGED <<consulta, pagina, cards, links, retorno>>

\* session.get answered 2xx: the cascade, then the loop over cards
HttpResposta ==
    /\ prog \in {"http", "links"} /\ pc = "get"
    /\ http' = Append(http, slug)
    /\ \E soup \in IF prog = "links" THEN PaginasLinks ELSE Paginas :
          /\ pagina' = soup
          /\ cards' = Cascata(soup)
          /\ links' = ValidaCards(Cascata(soup), {}, <<>>, limite)
    /\ pc' = IF links' = <<>> /\ salvar_html THEN "salvar_html" ELSE "ret"
    /\ UNCHANGED <<prog, varsPuras, exc, debug, kInt, varsSlug, varsSelenium, varsPreco,
                   varsSaida, varsBrowser>>
    /\ UNCHANGED <<consulta, retorno>>

\* no card, or no link: response.text is written to debug_<slug>.html, and
\* OSError is caught
HttpSalvarHtml ==
    /\ prog = "http" /\ pc = "salvar_html"
    /\ \E ok \in BOOLEAN :
          debug' = Append(debug, [termo |-> 1, slug |-> slug, ok |-> ok])
    /\ pc' = "ret"
    /\ UNCHANGED <<prog, varsPuras, exc, kInt, varsSlug, varsHttp, varsSelenium,
                   varsPreco, varsSaida, varsBrowser>>

\* return links[0] if links else None
BuscarLinkRetorna ==
    /\ prog = "http" /\ pc = "ret"
    /\ retorno' = IF links # <<>> THEN [achou |-> TRUE, link |-> links[1]]
                  ELSE [achou |-> FALSE, link |-> <<>>]
    /\ pc' = "fim"
    /\ UNCHANGED <<prog, varsPuras, exc, debug, kInt, varsSlug, varsSelenium, varsPreco,
                   varsSaida, varsBrowser>>
    /\ UNCHANGED <<consulta, pagina, cards, links, http>>

\* buscar_links_mercado_livre returns links to the caller that asks twice:
\* the list is kept, and the second call starts from nothing of the first
LinksRetorna ==
    /\ prog = "links" /\ pc = "ret"
    /\ resultados' = Append(resultados, [links |-> links])
    /\ IF resultados = <<>>
       THEN /\ pc' = "inicio"
            /\ pagina' = <<>> /\ cards' = <<>> /\ links' = <<>>
            /\ http' = <<>>
       ELSE /\ pc' = "fim"
            /\ UNCHANGED <<pagina, cards, links, http>>
    /\ UNCHANGED <<prog, varsPuras, exc, debug, kInt, saida, salvo, varsSlug,
                   varsSelenium, varsPreco, varsBrowser>>
    /\ UNCHANGED <<consulta, retorno>>

\* ------------------------------- browser path: buscar_links_para_itens
\* the columns 'Descricao do Item' that are enumerated
Colunas == SeqsAte(Descricoes, MaxItens)

\* Series.dropna()
DropNa(col) == SelectSeq(col, LAMBDA v : v # NaN)

\* Series.unique(): the values in order of first appearance
RECURSIVE Unique(_)
Unique(col) ==
    IF col = <<>> THEN <<>>
    ELSE LET resto == Unique(SubSeq(col, 1, Len(col) - 1))
             v == col[Len(col)]
         IN  IF \E i \in 1..Len(resto) : resto[i] = v THEN resto
             ELSE Append(resto, v)

\* the pages driver.find_elements can return: the href of each element
PaginasSelenium == SeqsAte(HrefsSelenium, MaxCards)

\* the browser path's test without its deny-list
AceitaSeleniumSemInvalido(href) == PadraoProdutoSelenium(href)

\* the test that lets a fragment-free href of the browser path through
AceitaSelenium(href) == ~ContemInvalido(href) /\ PadraoProdutoSelenium(href)

\* the loop over elementos: link_saida and status as it leaves them
RECURSIVE PrimeiroValido(_)
PrimeiroValido(es) ==
    IF es = <<>>
    THEN [link |-> NAO_ENCONTRADO, status |-> "Nao encontrado"]
    ELSE IF Head(es) = <<>> THEN PrimeiroValido(Tail(es))
    ELSE LET href == SplitHash(Head(es))
         IN  IF ~AceitaSelenium(href) THEN PrimeiroValido(Tail(es))
             ELSE [link |-> href, status |-> "Sucesso"]

\* driver.get(url) on the live driver
DriverGet(ss, d, url) ==
    [ss EXCEPT ![d].gets = Append(@, url)]

\* driver.quit() on the live driver
DriverQuit(ss, d) ==
    [ss EXCEPT ![d].quits = @ + 1]

\* webdriver.Chrome(options=options) when it succeeds
NovaSessao(ss) == Append(ss, [gets |-> <<>>, quits |-> 0])

\* with open(nome_debug, "w") as f: f.write(driver.page_source)
EscreveDebug(ok) ==
    debug' = Append(debug, [termo |-> indice, slug |-> slug, ok |-> ok])

InitSelenium ==
    /\ prog = "selenium"
    /\ df \in Colunas
    /\ texto = <<>> /\ consulta = <<>> /\ linhas = <<>>
    /\ limite = 1 /\ serie = <<>>
    /\ InitComum

\* the function up to its try: itens, then webdriver.Chrome, which may
\* raise. df is not read again, and the state forgets it.
SeleniumInicio ==
    /\ prog = "selenium" /\ pc = "inicio"
    /\ itens' = Unique(DropNa(df))
    /\ df' = <<>>
    /\ \/ /\ sessions' = NovaSessao(sessions)
          /\ driver' = Len(sessions')
          /\ pc' = "loop"
          /\ exc' = exc
       \/ /\ exc' = "WebDriverException"
          /\ pc' = "raised"
          /\ UNCHANGED varsBrowser
    /\ UNCHANGED <<prog, varsPuras, debug, kInt, varsSlug, varsHttp, varsPreco, varsSaida>>
    /\ UNCHANGED <<indice, termo_busca, slug, status, link_saida, elementos>>

\* the head of the for loop, after the sleep of the term before: the next
\* term, or the end of the loop
SeleniumProximo ==
    /\ prog = "selenium" /\ pc = "loop"
    /\ IF indice < Len(itens)
       THEN /\ indice' = indice + 1
            /\ termo_busca' = Strip(itens[indice + 1])
            /\ slug' = gerar_slug(Strip(itens[indice + 1]))
            /\ status' = "Nao encontrado"
            /\ link_saida' = NAO_ENCONTRADO
            /\ pc' = "get"
       ELSE /\ pc' = "finally"
            /\ UNCHANGED <<indice, termo_busca, slug, status, link_saida>>
    /\ UNCHANGED <<prog, varsPuras, exc, debug, kInt, varsSlug, varsHttp, varsPreco,
                   varsSaida, varsBrowser>>
    /\ UNCHANGED <<df, itens, elementos>>

\* driver.get, wait.until, find_elements and the loop over elementos: the
\* loop ends; or the write to the terminal that follows the choice of a
\* link (tqdm_write, line 249) raises, inside the try, and except Exception
\* takes it; or wait.until times out; or the driver raises
SeleniumGet ==
    /\ prog = "selenium" /\ pc = "get"
    /\ sessions' = DriverGet(sessions, driver, slug)
    /\ \/ \E es \in PaginasSelenium :
             /\ elementos' = es
             /\ link_saida' = PrimeiroValido(es).link
             /\ status' = PrimeiroValido(es).status
             /\ pc' = IF PrimeiroValido(es).status = "Sucesso"
                      THEN "append" ELSE "debug_try"
       \/ \E es \in PaginasSelenium :
             /\ PrimeiroValido(es).status = "Sucesso"
             /\ elementos' = es
             /\ link_saida' = PrimeiroValido(es).link
             /\ status' = "Erro: OSError"
             /\ pc' = "debug_erro"
       \/ /\ status' = "Timeout"
          /\ pc' = "debug_timeout"
          /\ UNCHANGED <<elementos, link_saida>>
       \/ /\ status' = "Erro: WebDriverException"
          /\ pc' = "debug_erro"
          /\ UNCHANGED <<elementos, link_saida>>
    /\ UNCHANGED <<prog, varsPuras, exc, debug, kInt, driver, varsSlug, varsHttp,
                   varsPreco, varsSaida>>
    /\ UNCHANGED <<df, itens, indice, termo_busca, slug>>

\* status != "Sucesso" inside the try: the debug write; what it raises is
\* caught by except Exception. elementos is not read after its loop, and
\* the state forgets it.
SeleniumDebugTry ==
    /\ prog = "selenium" /\ pc = "debug_try"
    /\ \/ /\ EscreveDebug(TRUE)
          /\ pc' = "append"
          /\ status' = status
       \/ /\ EscreveDebug(FALSE)
          /\ status' = "Erro: OSError"
          /\ pc' = "debug_erro"
    /\ elementos' = <<>>
    /\ UNCHANGED <<prog, varsPuras, exc, kInt, varsSlug, varsHttp, varsPreco,
                   varsSaida, varsBrowser>>
    /\ UNCHANGED <<df, itens, indice, termo_busca, slug, link_saida>>

\* the debug write of a handler (except TimeoutException, except
\* Exception): what it raises leaves the loop
DebugNoHandler ==
    /\ \/ /\ EscreveDebug(TRUE)
          /\ pc' = "append"
          /\ exc' = exc
       \/ /\ EscreveDebug(FALSE)
          /\ exc' = "OSError"
          /\ pc' = "finally"
    /\ elementos' = <<>>
    /\ UNCHANGED <<df, itens, indice, termo_busca, slug, status, link_saida>>

\* except TimeoutException
SeleniumDebugTimeout ==
    /\ prog = "selenium" /\ pc = "debug_timeout"
    /\ DebugNoHandler
    /\ UNCHANGED <<prog, varsPuras, kInt, varsSlug, varsHttp, varsPreco,
                   varsSaida, varsBrowser>>

\* except Exception
SeleniumDebugErro ==
    /\ prog = "selenium" /\ pc = "debug_erro"
    /\ DebugNoHandler
    /\ UNCHANGED <<prog, varsPuras, kInt, varsSlug, varsHttp, varsPreco,
                   varsSaida, varsBrowser>>

\* resultados.insert(0, ...) instead of resultados.append(...)
SeleniumAppendNaFrente ==
    /\ prog = "selenium" /\ pc = "append"
    /\ resultados' = <<[descricao |-> termo_busca, link |-> link_saida,
                        status |-> status]>> \o resultados
    /\ elementos' = <<>>
    /\ pc' = "loop"
    /\ UNCHANGED <<prog, varsPuras, exc, debug, kInt, saida, salvo, varsSlug,
                   varsHttp, varsPreco, varsBrowser>>
    /\ UNCHANGED <<df, itens, indice, termo_busca, slug, status, link_saida>>

\* resultados.append(...), then the sleep that ends at the head of the
\* loop. elementos is not read again before driver.find_elements assigns
\* it, and the state forgets it.
SeleniumAppend ==
    /\ prog = "selenium" /\ pc = "append"
    /\ resultados' = Append(resultados,
                            [descricao |-> termo_busca, link |-> link_saida,
                             status |-> status])
    /\ elementos' = <<>>
    /\ pc' = "loop"
    /\ UNCHANGED <<prog, varsPuras, exc, debug, kInt, saida, salvo, varsSlug, varsHttp,
                   varsPreco, varsBrowser>>
    /\ UNCHANGED <<df, itens, indice, termo_busca, slug, status, link_saida>>

\* KeyboardInterrupt inside the try: no handler of the function catches it
SeleniumInterrupcao ==
    /\ prog = "selenium"
    /\ pc \in {"loop", "get", "debug_try", "debug_timeout", "debug_erro",
               "append"}
    /\ exc' = "KeyboardInterrupt"
    /\ kInt' = Len(resultados)
    /\ pc' = "finally"
    /\ elementos' = <<>>
    /\ UNCHANGED <<prog, varsPuras, debug, varsSlug, varsHttp, varsPreco,
                   varsSaida, varsBrowser>>
    /\ UNCHANGED <<df, itens, indice, termo_busca, slug, status, link_saida>>

\* driver.quit() after the loop instead of in a finally: an exception in
\* flight skips it
SeleniumFinallySemQuit ==
    /\ prog = "selenium" /\ pc = "finally"
    /\ sessions' = IF exc = "none" THEN DriverQuit(sessions, driver)
                   ELSE sessions
    /\ pc' = IF exc = "none" THEN "returned" ELSE "raised"
    /\ UNCHANGED <<prog, varsPuras, exc, debug, kInt, driver, varsSlug, varsHttp,
                   varsSelenium, varsPreco, varsSaida>>

\* finally: driver.quit(), then return pd.DataFrame(resultados) or the
\* exception in flight
SeleniumFinally ==
    /\ prog = "selenium" /\ pc = "finally"
    /\ sessions' = DriverQuit(sessions, driver)
    /\ pc' = IF exc = "none" THEN "returned" ELSE "raised"
    /\ UNCHANGED <<prog, varsPuras, exc, debug, kInt, driver, varsSlug, varsHttp,
                   varsSelenium, varsPreco, varsSaida>>

\* main: resultado_df.to_excel(RESULTADO_ARQUIVO)
MainSalva ==
    /\ prog = "selenium" /\ pc = "returned"
    /\ saida' = resultados
    /\ salvo' = TRUE
    /\ pc' = "fim"
    /\ UNCHANGED <<prog, varsPuras, exc, debug, kInt, resultados, varsSlug, varsHttp,
                   varsSelenium, varsPreco, varsBrowser>>

\* main: buscar_links_para_itens raised, and nothing catches it
MainFalha ==
    /\ prog = "selenium" /\ pc = "raised"
    /\ pc' = "fim"
    /\ UNCHANGED <<prog, varsPuras, exc, debug, kInt, varsSlug, varsHttp, varsSelenium,
                   varsPreco, varsSaida, varsBrowser>>


\* ------------------------------------ scraper_ml.py: the processing loop
LIMITE_PRODUTOS == 50

\* the cells of the 'produto' and 'tamanho' columns that are enumerated
Produtos == {NaN, <<"a">>, <<" ">>}
Tamanhos == {NaN, <<"2", "8">>, <<"3", "8">>}
Linhas == SeqsAte([produto : Produtos, tamanho : Tamanhos], MaxLinhas)

\* pd.isna(valor) or str(valor).strip() == ""
Ausente(valor) == valor = NaN \/ Strip(valor) = <<>>

\* faltando != []
Faltando(row) == Ausente(row.produto) \/ Ausente(row.tamanho)

DigitoVal(c) ==
    CASE c = "0" -> 0 [] c = "1" -> 1 [] c = "2" -> 2 [] c = "3" -> 3
      [] c = "4" -> 4 [] c = "5" -> 5 [] c = "6" -> 6 [] c = "7" -> 7
      [] c = "8" -> 8 [] c = "9" -> 9

\* int(s) for a string of digits
RECURSIVE ParseInt(_)
ParseInt(s) ==
    IF s = <<>> THEN 0
    ELSE 10 * ParseInt(SubSeq(s, 1, Len(s) - 1)) + DigitoVal(s[Len(s)])

\* classificar_tipo(tamanho)
classificar_tipo(tamanho) ==
    IF tamanho # <<>> /\ \A i \in 1..Len(tamanho) : tamanho[i] \in Digitos
    THEN IF ParseInt(tamanho) <= 28 THEN <<"i","n","f","a","n","t","i","l">> ELSE <<"a","d","u","l","t","o">>
    ELSE <<"a","d","u","l","t","o">>

\* f"{nome_produto} {modelo_produto} {tipo}", the sheet having no 'modelo'
TermoPreco(row) ==
    row.produto \o <<" ">> \o <<" ">> \o classificar_tipo(row.tamanho)

\* the sheets long enough for the limit: LIMITE_PRODUTOS rows and up to
\* MaxLinhas more, complete but for some of the first MaxLinhas
LinhaCompleta == [produto |-> <<"a">>, tamanho |-> <<"3", "8">>]
LinhaIncompleta == [produto |-> <<"a">>, tamanho |-> NaN]
LinhasLongas ==
    {[i \in 1..(LIMITE_PRODUTOS + n) |->
         IF i \in F THEN LinhaIncompleta ELSE LinhaCompleta] :
       n \in 0..MaxLinhas, F \in SUBSET (1..MaxLinhas)}

\* the lookups whose every outcome is enumerated, those of the first
\* MaxLinhas rows; a later lookup finds a price
Enumerada == index <= MaxLinhas

InitPreco ==
    /\ prog = "preco"
    /\ linhas \in Linhas
    /\ texto = <<>> /\ consulta = <<>> /\ df = <<>>
    /\ limite = 1 /\ serie = <<>>
    /\ InitComum

InitLimite ==
    /\ prog = "preco"
    /\ linhas \in LinhasLongas
    /\ texto = <<>> /\ consulta = <<>> /\ df = <<>>
    /\ limite = 1 /\ serie = <<>>
    /\ InitComum

\* the head of the for loop with > for >=
PrecoLoopLimiteFrouxo ==
    /\ prog = "preco" /\ pc = "loop"
    /\ IF total_processados > LIMITE_PRODUTOS \/ index = Len(linhas)
       THEN /\ pc' = "salvar"
            /\ UNCHANGED <<index, termo_busca>>
       ELSE /\ index' = index + 1
            /\ IF Faltando(linhas[index + 1])
               THEN /\ pc' = "loop"
                    /\ UNCHANGED termo_busca
               ELSE /\ pc' = "configurar"
                    /\ termo_busca' = TermoPreco(linhas[index + 1])
    /\ UNCHANGED <<prog, varsPuras, exc, debug, kInt, varsSlug, varsHttp,
                   varsSaida, varsBrowser>>
    /\ UNCHANGED <<df, itens, indice, slug, status, link_saida, elementos>>
    /\ UNCHANGED <<linhas, total_processados, qtd_resultados>>

\* the head of the for loop (after the sleep of the row before): the
\* limit, the end of the rows, a row that is skipped, or a row to look up
PrecoLoop ==
    /\ prog = "preco" /\ pc = "loop"
    /\ IF total_processados >= LIMITE_PRODUTOS \/ index = Len(linhas)
       THEN /\ pc' = "salvar"
            /\ UNCHANGED <<index, termo_busca>>
       ELSE /\ index' = index + 1
            /\ IF Faltando(linhas[index + 1])
               THEN /\ pc' = "loop"
                    /\ UNCHANGED termo_busca
               ELSE /\ pc' = "configurar"
                    /\ termo_busca' = TermoPreco(linhas[index + 1])
    /\ UNCHANGED <<prog, varsPuras, exc, debug, kInt, varsSlug, varsHttp, varsSaida,
                   varsBrowser>>
    /\ UNCHANGED <<df, itens, indice, slug, status, link_saida, elementos>>
    /\ UNCHANGED <<linhas, total_processados, qtd_resultados>>

\* the module body before the loop
PrecoInicio ==
    /\ prog = "preco" /\ pc = "inicio"
    /\ pc' = "loop"
    /\ UNCHANGED <<prog, varsPuras, exc, debug, kInt, varsSlug, varsHttp, varsSelenium,
                   varsPreco, varsSaida, varsBrowser>>

\* buscar_preco: driver = configurar_driver(), outside its try; what it
\* raises is caught by the loop's except Exception
PrecoConfigurar ==
    /\ prog = "preco" /\ pc = "configurar"
    /\ \/ /\ sessions' = NovaSessao(sessions)
          /\ driver' = Len(sessions')
          /\ pc' = "preco_get"
          /\ UNCHANGED qtd_resultados
       \/ /\ Enumerada
          /\ qtd_resultados' = "Erro"
          /\ pc' = "registrar"
          /\ UNCHANGED varsBrowser
    /\ UNCHANGED <<prog, varsPuras, exc, debug, kInt, varsSlug, varsHttp, varsSelenium,
                   varsSaida>>
    /\ UNCHANGED <<linhas, index, total_processados>>

\* buscar_preco: driver.get and find_elements; WebDriverException is
\* caught and gives [], another exception stays in flight
PrecoGet ==
    /\ prog = "preco" /\ pc = "preco_get"
    /\ sessions' = DriverGet(sessions, driver, termo_busca)
    /\ \/ /\ qtd_resultados' \in IF Enumerada THEN {"0", "1"} ELSE {"1"}
          /\ exc' = exc
       \/ /\ Enumerada
          /\ qtd_resultados' = "0"
          /\ exc' = exc
       \/ /\ Enumerada
          /\ exc' = "Exception"
          /\ UNCHANGED qtd_resultados
    /\ pc' = "preco_finally"
    /\ UNCHANGED <<prog, varsPuras, debug, kInt, driver, varsSlug, varsHttp,
                   varsSelenium, varsSaida>>
    /\ UNCHANGED <<linhas, index, total_processados>>

\* buscar_preco: finally driver.quit(); then the loop's except Exception,
\* or the module's except KeyboardInterrupt
PrecoFinally ==
    /\ prog = "preco" /\ pc = "preco_finally"
    /\ sessions' = DriverQuit(sessions, driver)
    /\ driver' = 0
    /\ IF exc = "KeyboardInterrupt"
       THEN /\ pc' = "salvar"
            /\ UNCHANGED <<exc, qtd_resultados>>
       ELSE /\ pc' = "registrar"
            /\ exc' = "none"
            /\ qtd_resultados' = IF exc = "Exception" THEN "Erro"
                                 ELSE qtd_resultados
    /\ UNCHANGED <<prog, varsPuras, debug, kInt, varsSlug, varsHttp, varsSelenium,
                   varsSaida>>
    /\ UNCHANGED <<linhas, index, total_processados>>

\* resultados.append(...); total_processados += 1; then the sleep that
\* ends at the head of the loop
PrecoRegistrar ==
    /\ prog = "preco" /\ pc = "registrar"
    /\ resultados' = Append(resultados,
                            [nome |-> linhas[index].produto,
                             tamanho |-> linhas[index].tamanho,
                             tipo |-> classificar_tipo(linhas[index].tamanho),
                             qtd |-> qtd_resultados])
    /\ total_processados' = total_processados + 1
    /\ pc' = "loop"
    /\ UNCHANGED <<prog, varsPuras, exc, debug, kInt, saida, salvo, varsSlug, varsHttp,
                   varsSelenium, varsBrowser>>
    /\ UNCHANGED <<linhas, index, qtd_resultados>>

\* KeyboardInterrupt inside the module's try: inside buscar_preco its
\* finally runs first
PrecoInterrupcao ==
    /\ prog = "preco"
    /\ pc \in {"loop", "configurar", "preco_get", "registrar"}
    /\ exc' = "KeyboardInterrupt"
    /\ kInt' = Len(resultados)
    /\ pc' = IF pc = "preco_get" THEN "preco_finally" ELSE "salvar"
    /\ UNCHANGED <<prog, varsPuras, debug, varsSlug, varsHttp, varsSelenium, varsPreco,
                   varsSaida, varsBrowser>>

\* finally: resultado_df.to_excel(arquivo_saida)
PrecoSalvar ==
    /\ prog = "preco" /\ pc = "salvar"
    /\ saida' = resultados
    /\ salvo' = TRUE
    /\ pc' = "fim"
    /\ UNCHANGED <<prog, varsPuras, exc, debug, kInt, resultados, varsSlug, varsHttp,
                   varsSelenium, varsPreco, varsBrowser>>

\* ------------------------- colunas_utils.py: inferir_coluna_por_conteudo
\* n, the rows that are sampled
N_AMOSTRA == 5

\* the cells of the column, each as str() writes it
CelulasSerie ==
    {NaN, <<"0">>, <<"1">>, <<"1","5">>, <<"5","0">>, <<"5","1">>,
     <<"9","9">>, <<"1","0","0">>, <<"1","0","1">>, <<"-","1">>,
     <<"1",".","5">>, <<"x">>, <<"n","i","k","e">>}

produto_keywords ==
    { <<"n","i","k","e">>, <<"a","d","i","d","a","s">>,
      <<"t","e","n","i","s">>, <<"t","U+00EA","n","i","s">>,
      <<"s","a","p","a","t","o">>, <<"c","a","m","i","s","a">>,
      <<"c","a","l","c","a">>, <<"c","a","l","U+00E7","a">> }

\* serie.dropna().astype(str).head(n).str.lower()
Amostra(col, n) ==
    LET semNa == DropNa(col)
        k == IF Len(semNa) < n THEN Len(semNa) ELSE n
    IN  [i \in 1..k |-> LowerStr(semNa[i])]

\* " ".join(amostra)
RECURSIVE Junta(_)
Junta(am) ==
    IF am = <<>> THEN <<>>
    ELSE IF Len(am) = 1 THEN am[1]
    ELSE am[1] \o <<" ">> \o Junta(Tail(am))

\* str.replace(",", ".")
VirgulaParaPonto(s) == [i \in 1..Len(s) |-> IF s[i] = "," THEN "." ELSE s[i]]

\* the longest run of digits at the head of s
RECURSIVE DigitosNaFrente(_)
DigitosNaFrente(s) ==
    IF s # <<>> /\ Head(s) \in Digitos
    THEN <<Head(s)>> \o DigitosNaFrente(Tail(s))
    ELSE <<>>

\* str.extract(r"(-?\d+\.?\d*)") and pd.to_numeric: the leftmost match,
\* as [achou, negativo, inteiro, fracao], the digits before and after the
\* point; achou is FALSE for NaN
Extrai(s) ==
    LET comeca(i) == \/ s[i] \in Digitos
                     \/ s[i] = "-" /\ i < Len(s) /\ s[i + 1] \in Digitos
        inicios == {i \in 1..Len(s) : comeca(i)}
    IN  IF inicios = {}
        THEN [achou |-> FALSE, negativo |-> FALSE, inteiro |-> <<>>,
              fracao |-> <<>>]
        ELSE LET i == CHOOSE x \in inicios : \A y \in inicios : x <= y
                 neg == s[i] = "-"
                 d == IF neg THEN i + 1 ELSE i
                 int == DigitosNaFrente(SubSeq(s, d, Len(s)))
                 r == d + Len(int)
                 frac == IF r <= Len(s) /\ s[r] = "."
                         THEN DigitosNaFrente(SubSeq(s, r + 1, Len(s)))
                         ELSE <<>>
             IN  [achou |-> TRUE, negativo |-> neg, inteiro |-> int,
                  fracao |-> frac]

\* numero % 1 == 0
SemFracao(m) == \A i \in 1..Len(m.fracao) : m.fracao[i] = "0"

\* the value of a number without fraction
ValorInteiro(m) ==
    IF m.negativo THEN 0 - ParseInt(m.inteiro) ELSE ParseInt(m.inteiro)

\* numeros.between(a, b), for a number without fraction
Between(m, a, b) == a <= ValorInteiro(m) /\ ValorInteiro(m) <= b

\* inferir_coluna_por_conteudo(serie), nome_coluna left None: no name
\* contains a key, and the content decides
inferir_coluna_por_conteudo(col) ==
    LET amostra == Amostra(col, N_AMOSTRA)
        txt == Junta(amostra)
        numeros == [i \in 1..Len(amostra) |->
                       Extrai(VirgulaParaPonto(amostra[i]))]
        todos(P(_)) == \A i \in 1..Len(numeros) : P(numeros[i])
        notna == todos(LAMBDA m : m.achou)
    IN  IF amostra = <<>> THEN "None"
        ELSE IF \E k \in produto_keywords : Contem(txt, k) THEN "produto"
        ELSE IF notna /\ todos(SemFracao)
                /\ todos(LAMBDA m : Between(m, 15, 50))
        THEN "tamanho"
        ELSE IF notna /\ todos(SemFracao)
                /\ todos(LAMBDA m : Between(m, 0, 99))
        THEN "quantidade"
        ELSE IF \A i \in 1..Len(amostra) :
                    Contem(amostra[i], <<",">>) \/ Contem(amostra[i], <<".">>)
        THEN "preco_unitario"
        ELSE "None"

InitInferir ==
    /\ prog = "inferir"
    /\ serie \in SeqsAte(CelulasSerie, MaxAmostra)
    /\ texto = <<>> /\ consulta = <<>> /\ df = <<>> /\ linhas = <<>>
    /\ limite = 1
    /\ InitComum

\* inferir_coluna_por_conteudo(serie)
ChamaInferir ==
    /\ prog = "inferir" /\ pc = "inicio"
    /\ inferido' = inferir_coluna_por_conteudo(serie)
    /\ pc' = "fim"
    /\ UNCHANGED <<prog, limite, slugDeNovo, serie, exc, debug, kInt>>
    /\ UNCHANGED <<varsSlug, varsHttp, varsSelenium, varsPreco, varsSaida,
                   varsBrowser>>

NextInferir == ChamaInferir

SpecInferir == InitInferir /\ [][NextInferir]_vars

\* ------------------------------------------- test_selenium_ml.py: main
\* args.search_term, "notebook" by default
SearchTerm == <<"n","o","t","e","b","o","o","k">>

InitTeste ==
    /\ prog = "teste"
    /\ texto = <<>> /\ consulta = <<>> /\ df = <<>> /\ linhas = <<>>
    /\ limite = 1 /\ serie = <<>>
    /\ InitComum

\* driver = webdriver.Chrome(options=options), inside the try
TesteCriar ==
    /\ prog = "teste" /\ pc = "inicio"
    /\ \/ /\ sessions' = NovaSessao(sessions)
          /\ driver' = Len(sessions')
          /\ pc' = "t_pagina"
          /\ exc' = exc
       \/ /\ exc' = "WebDriverException"
          /\ pc' = "t_handler"
          /\ UNCHANGED varsBrowser
    /\ UNCHANGED <<prog, varsPuras, debug, kInt, varsSlug, varsHttp, varsSelenium,
                   varsPreco, varsSaida>>

\* driver.get(url), the pop-ups, the waits and the first link
TestePagina ==
    /\ prog = "teste" /\ pc = "t_pagina"
    /\ sessions' = DriverGet(sessions, driver, SearchTerm)
    /\ \/ /\ pc' = "t_finally"
          /\ exc' = exc
       \/ /\ exc' \in {"TimeoutException", "WebDriverException", "Exception"}
          /\ pc' = "t_handler"
    /\ UNCHANGED <<prog, varsPuras, debug, kInt, driver, varsSlug, varsHttp,
                   varsSelenium, varsPreco, varsSaida>>

\* the except clauses: the exception is handled; with a driver the
\* screenshot is tried, its WebDriverException is caught and anything else
\* it raises leaves main
TesteHandler ==
    /\ prog = "teste" /\ pc = "t_handler"
    /\ \/ exc' = "none"
       \/ driver # 0 /\ exc' = "Exception"
    /\ pc' = "t_finally"
    /\ UNCHANGED <<prog, varsPuras, debug, kInt, varsSlug, varsHttp, varsSelenium,
                   varsPreco, varsSaida, varsBrowser>>

\* KeyboardInterrupt inside the try or inside a handler
TesteInterrupcao ==
    /\ prog = "teste" /\ pc \in {"t_pagina", "t_handler"}
    /\ exc' = "KeyboardInterrupt"
    /\ kInt' = 0
    /\ pc' = "t_finally"
    /\ UNCHANGED <<prog, varsPuras, debug, varsSlug, varsHttp, varsSelenium, varsPreco,
                   varsSaida, varsBrowser>>

\* finally: if driver: driver.quit()
TesteFinally ==
    /\ prog = "teste" /\ pc = "t_finally"
    /\ sessions' = IF driver # 0 THEN DriverQuit(sessions, driver)
                   ELSE sessions
    /\ pc' = "fim"
    /\ UNCHANGED <<prog, varsPuras, exc, debug, kInt, driver, varsSlug, varsHttp,
                   varsSelenium, varsPreco, varsSaida>>

\* ------------------------------------------------------- specification
Init == InitHttp \/ InitSelenium \/ InitPreco \/ InitTeste

Next ==
    \/ HttpInicio \/ HttpRetentavel \/ HttpErro \/ HttpResposta
    \/ HttpSalvarHtml \/ BuscarLinkRetorna
    \/ SeleniumInicio \/ SeleniumProximo \/ SeleniumGet \/ SeleniumDebugTry
    \/ SeleniumDebugTimeout \/ SeleniumDebugErro \/ SeleniumAppend
    \/ SeleniumInterrupcao \/ SeleniumFinally \/ MainSalva \/ MainFalha
    \/ PrecoInicio \/ PrecoLoop \/ PrecoConfigurar \/ PrecoGet
    \/ PrecoFinally \/ PrecoRegistrar \/ PrecoInterrupcao \/ PrecoSalvar
    \/ TesteCriar \/ TestePagina \/ TesteHandler \/ TesteInterrupcao
    \/ TesteFinally

Spec == Init /\ [][Next]_vars

\* the processing loop of scraper_ml.py, on short and on long sheets
NextPreco ==
    \/ PrecoInicio \/ PrecoLoop \/ PrecoConfigurar \/ PrecoGet
    \/ PrecoFinally \/ PrecoRegistrar \/ PrecoInterrupcao \/ PrecoSalvar

SpecPreco == (InitPreco \/ InitLimite) /\ [][NextPreco]_vars

\* buscar_link alone
NextHttp ==
    \/ HttpInicio \/ HttpRetentavel \/ HttpErro \/ HttpResposta
    \/ HttpSalvarHtml \/ BuscarLinkRetorna

SpecHttp == InitHttp /\ [][NextHttp]_vars

\* buscar_links_mercado_livre called twice with a limite of its caller
NextLinks ==
    \/ HttpInicio \/ HttpRetentavel \/ HttpErro \/ HttpResposta
    \/ LinksRetorna

SpecLinks == InitLinks /\ [][NextLinks]_vars

\* ---------------------------------------------------------------- claims
SoMinusculasDigitosHifen(s) ==
    \A i \in 1..Len(s) :
        \/ \E k \in 1..26 : Minusculas[k] = s[i]
        \/ s[i] \in Digitos
        \/ s[i] = "-"

SemHifenDuplo(s) == \A i \in 1..(Len(s) - 1) : ~(s[i] = "-" /\ s[i + 1] = "-")

SemHifenNasPontas(s) == s = <<>> \/ (s[1] # "-" /\ s[Len(s)] # "-")

\* C1: the slug gerar_slug returns holds only lowercase ASCII letters,
\* digits and single hyphens, and neither starts nor ends with a hyphen.
C1_SlugBemFormado ==
    (prog = "slug" /\ pc = "fim") =>
        /\ SoMinusculasDigitosHifen(slugTexto)
        /\ SemHifenDuplo(slugTexto)
        /\ SemHifenNasPontas(slugTexto)

\* What gerar_slug does keep of C1: the alphabet and the single hyphens.
SlugAlfabetoEHifens ==
    (prog = "slug" /\ pc = "fim") =>
        SoMinusculasDigitosHifen(slugTexto) /\ SemHifenDuplo(slugTexto)

DebugFalhou == \E i \in DOMAIN debug : ~debug[i].ok

\* C2: a debug write that fails never fails the term: in the HTTP path and
\* in the browser path the failure is swallowed, the term gets its record
\* and the terms after it are processed. Stated on the runs that end
\* without interruption: after a failed debug write no exception has left
\* the function, and the browser path has saved one record per term.
C2_DebugNaoDerrubaTermo ==
    (pc = "fim" /\ prog \in {"http", "selenium"} /\ kInt = -1 /\ DebugFalhou)
        => /\ exc = "none"
           /\ prog = "selenium" => salvo /\ Len(saida) = Len(itens)

Encerradas == \A i \in DOMAIN sessions : sessions[i].quits = 1

\* the browser-driving operation has been left
ForaDaOperacao ==
    \/ prog = "selenium" /\ pc \in {"returned", "raised", "fim"}
    \/ prog = "preco" /\ pc \notin {"preco_get", "preco_finally"}
    \/ prog = "teste" /\ pc = "fim"

C4_ParciaisPreservados ==
    (pc = "fim" /\ prog \in {"selenium", "preco"} /\ kInt >= 1)
        => salvo /\ Len(saida) = kInt /\ Len(resultados) = kInt

\* C5: a debug write is made for a term if and only if the term does not
\* end in success.
C5_DebugSseFalha ==
    pc = "fim" =>
        /\ prog = "http" =>
              (~retorno.achou <=> \E i \in DOMAIN debug : debug[i].termo = 1)
        /\ prog = "selenium" =>
              \A j \in DOMAIN resultados :
                  resultados[j].status # "Sucesso"
                      <=> \E i \in DOMAIN debug : debug[i].termo = j

\* C6: a term whose HTTP path ends without link is taken to the browser
\* path before it is reported as not found, and the browser path loads no
\* search page that the HTTP path did not request first.
C6_EscalaParaBrowser ==
    /\ (prog = "http" /\ pc = "fim" /\ ~retorno.achou) =>
          \E i \in DOMAIN sessions :
              \E g \in DOMAIN sessions[i].gets : sessions[i].gets[g] = slug
    /\ (prog = "selenium" /\ pc = "fim") =>
          \A i \in DOMAIN sessions : \A g \in DOMAIN sessions[i].gets :
              \E h \in DOMAIN http : http[h] = sessions[i].gets[g]

\* C7: no browser session loads the search page of more than one term.
C7_SessaoExclusiva ==
    \A i \in DOMAIN sessions :
        Cardinality({sessions[i].gets[g] : g \in DOMAIN sessions[i].gets}) <= 1

\* C8: a candidate whose fragment-free href contains a deny-listed segment
\* is never the link returned, in the HTTP path and in the browser path,
\* also when it matches the product pattern.
C8_InvalidoRejeitado ==
    /\ \A i \in DOMAIN cards :
          ContemInvalido(SplitHash(cards[i])) =>
              /\ \A j \in DOMAIN links : links[j] # SplitHash(cards[i])
              /\ retorno.achou => retorno.link # SplitHash(cards[i])
    /\ \A i \in DOMAIN elementos :
          ContemInvalido(SplitHash(elementos[i])) =>
              link_saida # SplitHash(elementos[i])

\* the browser path passed over /ajuda/p/MLB1 and chose a later element
C8_Witness ==
    /\ prog = "selenium" /\ pc = "append" /\ status = "Sucesso"
    /\ Len(elementos) >= 2 /\ elementos[1] = HrefAjudaProduto

SemFragmento(l) == \A i \in 1..Len(l) : l[i] # "#"

RegistrosValidos(rs) ==
    \A j \in DOMAIN rs :
        rs[j].status = "Sucesso" =>
            /\ rs[j].link # NAO_ENCONTRADO
            /\ SemFragmento(rs[j].link)
            /\ PadraoProdutoSelenium(rs[j].link)
            /\ ~ContemInvalido(rs[j].link)

\* C9: every link buscar_links_mercado_livre returns, and every link of a
\* 'Sucesso' record of buscar_links_para_itens, is fragment-free, matches
\* the product pattern of its path and contains no deny-listed segment.
C9_SoLinksValidos ==
    /\ \A j \in DOMAIN links :
          /\ SemFragmento(links[j])
          /\ PadraoProdutoHttp(links[j])
          /\ ~ContemInvalido(links[j])
    /\ prog = "selenium" =>
          RegistrosValidos(resultados) /\ RegistrosValidos(saida)

\* a saved output with a 'Sucesso' record and a record without link
C9_Witness ==
    /\ prog = "selenium" /\ pc = "fim" /\ salvo
    /\ \E j \in DOMAIN saida : saida[j].status = "Sucesso"
    /\ \E j \in DOMAIN saida : saida[j].status = "Nao encontrado"

\* C10: no two records of buscar_links_para_itens carry the same
\* 'Descricao do Item'.
C10_UmRegistroPorTermo ==
    prog = "selenium" =>
        \A i, j \in DOMAIN resultados :
            i # j => resultados[i].descricao # resultados[j].descricao

\* the row of col where v first appears
PrimeiraOcorrencia(col, v) ==
    CHOOSE i \in 1..Len(col) : col[i] = v /\ \A j \in 1..(i - 1) : col[j] # v

\* its holds the cells of col that are not NaN, each once, in the order in
\* which they first appear in col
OrdemDeEntrada(col, its) ==
    /\ \A i \in DOMAIN its :
          its[i] # NaN /\ \E k \in DOMAIN col : col[k] = its[i]
    /\ \A k \in DOMAIN col :
          col[k] # NaN => \E i \in DOMAIN its : its[i] = col[k]
    /\ \A i, j \in DOMAIN its :
          i < j => PrimeiraOcorrencia(col, its[i]) < PrimeiraOcorrencia(col, its[j])

\* the k-th record and the k-th page load are those of the k-th term, and
\* the page of a term is loaded only when the term before has its record
OrdemNosRegistros ==
    LET gets == IF driver = 0 THEN <<>> ELSE sessions[driver].gets
    IN  /\ Len(resultados) <= Len(gets)
        /\ Len(gets) <= Len(resultados) + 1
        /\ Len(gets) <= Len(itens)
        /\ \A k \in DOMAIN resultados :
              resultados[k].descricao = Strip(itens[k])
        /\ \A k \in DOMAIN gets : gets[k] = gerar_slug(Strip(itens[k]))

\* C11: the terms of buscar_links_para_itens are the cells of the column
\* in input order, they are processed one after another, and the records
\* and the page loads follow the order of the terms.
C11_OrdemPreservada ==
    prog = "selenium" =>
        /\ pc = "inicio" => OrdemDeEntrada(df, Unique(DropNa(df)))
        /\ OrdemNosRegistros

\* two terms, the second first in no order but the input's, both saved
C11_Witness ==
    /\ prog = "selenium" /\ pc = "fim" /\ salvo
    /\ itens = << <<"b">>, <<" ", "a">> >>
    /\ Len(saida) = 2
    /\ saida[1].descricao = <<"b">> /\ saida[2].descricao = <<"a">>

\* C12: one call of buscar_links_mercado_livre sends one GET, whatever the
\* answer.
C12_UmGetSemRetry ==
    prog \in {"http", "links"} => Len(http) <= 1

\* the cards whose fragment-free href passes the test of the HTTP path
Aceitos(cs) ==
    {i \in DOMAIN cs : cs[i] # <<>> /\ AceitaHttp(SplitHash(cs[i]))}

\* C15: the list buscar_links_mercado_livre returns holds no URL twice,
\* fragments apart; it holds fragment-free hrefs of the cards, at most
\* limite of them; and a call withholds no URL because an earlier call
\* saw it: below limite, every accepted URL of the cards is in the list.
C15_SemDuplicados ==
    prog \in {"http", "links"} =>
        /\ \A i, j \in DOMAIN links : i # j => links[i] # links[j]
        /\ \A j \in DOMAIN links :
              \E i \in DOMAIN cards : links[j] = SplitHash(cards[i])
        /\ Len(links) <= limite
        /\ Len(links) < limite =>
              \A i \in Aceitos(cards) :
                  \E j \in DOMAIN links : links[j] = SplitHash(cards[i])

\* the second call returns, once, a URL its page holds twice and the first
\* call had returned
C15_Witness ==
    /\ prog = "links" /\ pc = "fim" /\ limite = 2
    /\ cards = <<HrefProdutoFrag, HrefProduto>>
    /\ links = <<HrefProduto>>
    /\ resultados[1].links = <<HrefProduto>>

\* the first selector of the cascade that matches an element of the page,
\* 0 when none does
PrimeiroSeletor(soup) ==
    IF \E i \in DOMAIN soup : soup[i].sel # 0
    THEN CHOOSE k \in 1..3 :
            /\ \E i \in DOMAIN soup : soup[i].sel = k
            /\ \A i \in DOMAIN soup : soup[i].sel = 0 \/ soup[i].sel >= k
    ELSE 0

\* C16: the cards are the elements of the first selector that matches
\* anything, in document order, and the elements that match the product
\* pattern only when no selector matches; the first link is the first card,
\* in that order, that passes validation, and there is none when no card
\* does.
C16_CascataEPrimeiroAceito ==
    (prog \in {"http", "links"} /\ pc \in {"salvar_html", "ret", "fim"}
        /\ http # <<>> /\ (pagina # <<>> \/ cards = <<>>)) =>
        LET k == PrimeiroSeletor(pagina)
        IN  /\ k # 0 =>
                  cards = HrefsDe(SelectSeq(pagina, LAMBDA a : a.sel = k))
            /\ k = 0 =>
                  cards = HrefsDe(SelectSeq(pagina,
                                  LAMBDA a : PadraoProdutoHttp(a.href)))
            /\ Aceitos(cards) = {} => links = <<>>
            /\ Aceitos(cards) # {} =>
                  /\ links # <<>>
                  /\ \E i \in Aceitos(cards) :
                        /\ \A j \in Aceitos(cards) : i <= j
                        /\ links[1] = SplitHash(cards[i])

\* the second selector wins over an element that comes first in the page
\* and that only the third selector matches
C16_Witness ==
    /\ prog = "http" /\ pc = "fim"
    /\ Len(pagina) = 2
    /\ pagina[1] = [href |-> HrefProduto, sel |-> 3]
    /\ pagina[2] = [href |-> HrefItem, sel |-> 2]
    /\ retorno = [achou |-> TRUE, link |-> HrefItem]

\* C13: Scenario A, gerar_slug("Tenis Adidas VL Court 3.0 38") is
\* "tenis-adidas-vl-court-3-0-38".
C13_CenarioA ==
    (prog = "slug" /\ pc = "fim" /\ texto = CenarioA) =>
        slugTexto = <<"t","e","n","i","s","-","a","d","i","d","a","s","-",
                      "v","l","-","c","o","u","r","t","-","3","-","0","-",
                      "3","8">>

\* C14: gerar_slug(gerar_slug(s)) = gerar_slug(s).
C14_Idempotente ==
    (prog = "slug" /\ pc = "de_novo") => slugDeNovo = slugTexto

\* a text with a capital and a run of hyphens, slugged twice
C14_Witness ==
    /\ prog = "slug" /\ pc = "de_novo"
    /\ texto = <<"B", "-", "-">> /\ slugTexto = <<"b", "-">>

\* the cell is an integer as str() writes it
CelulaInteira(c) ==
    LET d == IF c # <<>> /\ Head(c) = "-" THEN Tail(c) ELSE c
    IN  d # <<>> /\ \A i \in 1..Len(d) : d[i] \in Digitos

\* the integer of such a cell
InteiroDaCelula(c) ==
    IF Head(c) = "-" THEN 0 - ParseInt(Tail(c)) ELSE ParseInt(c)

\* C17: a column without name whose sampled cells are all integers is
\* 'tamanho' when all are between 15 and 50, 'quantidade' when all are
\* between 1 and 100 and not all between 15 and 50, and neither of the
\* two when one of them is outside 1..100.
C17_FaixasDeInteiros ==
    (prog = "inferir" /\ pc = "fim" /\ serie # <<>>
        /\ \A i \in DOMAIN serie : CelulaInteira(serie[i])) =>
        LET v(i) == InteiroDaCelula(serie[i])
            tam == \A i \in DOMAIN serie : 15 <= v(i) /\ v(i) <= 50
            qtd == \A i \in DOMAIN serie : 1 <= v(i) /\ v(i) <= 100
        IN  /\ tam => inferido = "tamanho"
            /\ (qtd /\ ~tam) => inferido = "quantidade"
            /\ ~qtd => inferido \notin {"tamanho", "quantidade"}

\* the forms a status takes: 'Sucesso', 'Nao encontrado', 'Timeout' and
\* 'Erro: ' followed by the name of an exception type
StatusConhecidos ==
    {"Sucesso", "Nao encontrado", "Timeout", "Erro: WebDriverException",
     "Erro: OSError"}

\* C18: every record of buscar_links_para_itens has one of the four forms
\* of status, and its link is the sentinel if and only if its status is
\* not 'Sucesso'.
C18_StatusELinkCoerentes ==
    prog = "selenium" =>
        \A j \in DOMAIN resultados :
            /\ resultados[j].status \in StatusConhecidos
            /\ resultados[j].link = NAO_ENCONTRADO
                  <=> resultados[j].status # "Sucesso"

\* the rows among the first k that miss neither 'produto' nor 'tamanho'
Completas(k) == {i \in 1..k : ~Faltando(linhas[i])}

====
